---- MODULE Spec2Model ----
(***************************************************************************)
(* Model of quipubase/partial.py: the Partial[T] patch container and its   *)
(* recursive application (Partial.value) onto records (pydantic            *)
(* BaseModel), dicts, lists and scalars.                                   *)
(*                                                                         *)
(* Python values are references into a heap of mutable objects, so that    *)
(* copying, aliasing and in-place writes are visible: a value is either a  *)
(* scalar or a reference, and the heap is a sequence of objects indexed by *)
(* address.                                                                *)
(***************************************************************************)
EXTENDS Integers, Sequences, FiniteSets, TLC

VARIABLES heap, original, snap, data, cls, via, patch, invalid, res, pc, muts,
          dsnap, first,
          wrapped, delay, calls, invoked,
          sub

\* the patch engine (partial.py), the decorators (utils.py), the subscription
\* (client.py)
pvars == <<heap, original, snap, data, cls, via, patch, invalid, res, pc, muts,
           dsnap, first>>
hvars == <<wrapped, delay, calls, invoked>>
svars == <<sub>>

vars == <<pvars, hvars, svars>>

\* a component that takes no part in a behaviour
PartialOff ==
  /\ heap = <<>> /\ original = [t |-> "n", x |-> 0] /\ snap = [t |-> "n", x |-> 0]
  /\ data = [t |-> "n", x |-> 0] /\ cls = "" /\ via = "none"
  /\ patch = [t |-> "n", x |-> 0] /\ invalid = <<>> /\ res = [t |-> "n", x |-> 0]
  /\ pc = "off" /\ muts = 0 /\ dsnap = <<>> /\ first = [t |-> "n", x |-> 0]
HandleOff ==
  /\ wrapped = [deco |-> "none", kind |-> "none"]
  /\ delay = 0 /\ calls = <<>> /\ invoked = 0
SubOff == sub = [pc |-> "off"]

(***************************************************************************)
(* Bounds of the model.                                                    *)
(***************************************************************************)
MaxLen == 2
MaxMut == 1

(***************************************************************************)
(* Values and heap objects.                                                *)
(***************************************************************************)
EmptyMap == <<>>

Scalar(n) == [t |-> "s", x |-> n]
Ref(a) == [t |-> "r", x |-> a]
None == [t |-> "n", x |-> 0]

Obj(k, c, m, s) == [k |-> k, c |-> c, m |-> m, s |-> s]

\* the runtime category isinstance() dispatches on
KindOf(h, v) == IF v.t = "r" THEN h[v.x].k ELSE "scalar"

isinstance(h, v, kinds) == KindOf(h, v) \in kinds

\* every key a dict, a record or a patch of the model can carry, in the
\* order in which the model iterates them
KeyOrder ==
  << "name", "addr", "tags", "meta", "zzz", "street", "city", "geo", "bogus",
     "lat", "lon", "a", "b", "c", "d", "x", "y", "l", "u", "items", "value",
     "foo", "0", "1", "2", "5", "-1", "k", "mut" >>

Keys(m) == SelectSeq(KeyOrder, LAMBDA k : k \in DOMAIN m)

SetAttr(h, a, key, v) ==
  [h EXCEPT ![a] = Obj(@.k, @.c, [k \in DOMAIN @.m \cup {key} |->
                                     IF k = key THEN v ELSE @.m[k]], @.s)]

SetItem(h, a, i, v) == [h EXCEPT ![a] = Obj(@.k, @.c, @.m, [@.s EXCEPT ![i] = v])]

(***************************************************************************)
(* Then(r, K) is K(r) with r evaluated first: the statements of a method   *)
(* run in order, each on the heap the previous one left.                   *)
(***************************************************************************)
Then(r, K(_)) == CHOOSE y \in {K(z) : z \in {r}} : TRUE

(***************************************************************************)
(* copy.deepcopy: a fresh object for every object reachable from v.        *)
(***************************************************************************)
RECURSIVE deepcopy(_, _), deepcopy_map(_, _, _, _), deepcopy_seq(_, _, _, _)

\* a copy that shares the object with the original
deepcopy_alias(h, v) == [h |-> h, v |-> v]

deepcopy(h, v) ==
  IF v.t # "r" THEN [h |-> h, v |-> v]
  ELSE Then(h[v.x], LAMBDA o :
       Then(deepcopy_map(h, o.m, Keys(o.m), EmptyMap), LAMBDA cm :
       Then(deepcopy_seq(cm.h, o.s, 1, <<>>), LAMBDA cs :
         [h |-> Append(cs.h, Obj(o.k, o.c, cm.m, cs.s)),
          v |-> Ref(Len(cs.h) + 1)])))

deepcopy_map(h, m, ks, acc) ==
  IF ks = <<>> THEN [h |-> h, m |-> acc]
  ELSE Then(deepcopy(h, m[Head(ks)]), LAMBDA c :
         deepcopy_map(c.h, m, Tail(ks), acc @@ (Head(ks) :> c.v)))

deepcopy_seq(h, s, i, acc) ==
  IF i > Len(s) THEN [h |-> h, s |-> acc]
  ELSE Then(deepcopy(h, s[i]), LAMBDA c :
         deepcopy_seq(c.h, s, i + 1, Append(acc, c.v)))

(***************************************************************************)
(* Structural value of v: what Python's == compares.                       *)
(***************************************************************************)
AV(t, c, m, s, x) == [t |-> t, c |-> c, m |-> m, s |-> s, x |-> x]

RECURSIVE Abs(_, _)
Abs(h, v) ==
  IF v.t # "r" THEN AV(v.t, "", EmptyMap, <<>>, v.x)
  ELSE LET o == h[v.x]
       IN AV(o.k, o.c, [k \in DOMAIN o.m |-> Abs(h, o.m[k])],
             [i \in DOMAIN o.s |-> Abs(h, o.s[i])], 0)

\* addresses of the objects reachable from v
RECURSIVE Reach(_, _)
Reach(h, v) ==
  IF v.t # "r" THEN {}
  ELSE LET o == h[v.x]
       IN {v.x} \cup UNION {Reach(h, o.m[k]) : k \in DOMAIN o.m}
                \cup UNION {Reach(h, o.s[i]) : i \in DOMAIN o.s}

(***************************************************************************)
(* Literals the caller writes: S scalar, D dict, L list, R record (an      *)
(* instance of a BaseModel subclass), P a Partial of class c.              *)
(***************************************************************************)
S(n) == AV("s", "", EmptyMap, <<>>, n)
D(m) == AV("dict", "", m, <<>>, 0)
L(s) == AV("list", "", EmptyMap, s, 0)
R(c, m) == AV("rec", c, m, <<>>, 0)
P(c, m) == AV("partial", c, m, <<>>, 0)

RECURSIVE Build(_, _), BuildMap(_, _, _, _), BuildSeq(_, _, _, _)

Build(h, av) ==
  IF av.t \in {"s", "n"} THEN [h |-> h, v |-> [t |-> av.t, x |-> av.x]]
  ELSE Then(BuildMap(h, av.m, Keys(av.m), EmptyMap), LAMBDA bm :
       Then(BuildSeq(bm.h, av.s, 1, <<>>), LAMBDA bs :
         [h |-> Append(bs.h, Obj(av.t, av.c, bm.m, bs.s)),
          v |-> Ref(Len(bs.h) + 1)]))

BuildMap(h, m, ks, acc) ==
  IF ks = <<>> THEN [h |-> h, m |-> acc]
  ELSE Then(Build(h, m[Head(ks)]), LAMBDA b :
         BuildMap(b.h, m, Tail(ks), acc @@ (Head(ks) :> b.v)))

BuildSeq(h, s, i, acc) ==
  IF i > Len(s) THEN [h |-> h, s |-> acc]
  ELSE Then(Build(h, s[i]), LAMBDA b :
         BuildSeq(b.h, s, i + 1, Append(acc, b.v)))

(***************************************************************************)
(* Record shapes: the BaseModel subclasses of the model and their declared *)
(* fields (get_type_hints), and the Partial classes.                       *)
(***************************************************************************)
BaseModels == {"User", "Address"}

get_type_hints(model) ==
  CASE model = "User" -> {"name", "addr", "tags", "meta"}
    [] model = "Address" -> {"street", "city", "geo"}
    [] OTHER -> {}

\* the class create_typed_partial(model_type) returns
create_typed_partial(model_type) == "TypedPartial[" \o model_type \o "]"

TypeArgs == BaseModels \cup {"dict"}

\* cls.__orig_bases__: Partial itself derives from Generic[T]; a class made by
\* create_typed_partial derives from Partial[model_type]
orig_bases(c) ==
  IF \E m \in TypeArgs : create_typed_partial(m) = c
  THEN <<[origin |-> "Partial",
          arg |-> CHOOSE m \in TypeArgs : create_typed_partial(m) = c]>>
  ELSE <<[origin |-> "Generic", arg |-> "T"]>>

\* the class whose __new__ runs when the caller writes form(**kwargs): the
\* subscripted alias Partial[M] forwards the call to its origin, Partial
CalledClass(form) ==
  IF form.kind = "typed" THEN create_typed_partial(form.model) ELSE "Partial"

(***************************************************************************)
(* Partial.__new__ and Partial.__init__.                                   *)
(***************************************************************************)
RECURSIVE first_partial_arg(_, _)
first_partial_arg(bases, i) ==
  IF i > Len(bases) THEN "None"
  ELSE IF bases[i].origin = "Partial" /\ bases[i].arg # "Any" THEN bases[i].arg
  ELSE first_partial_arg(bases, i + 1)

\* a class that never finds its type argument
origin_type_none(c) == "None"

\* origin_type: the type argument T the class was specialised with
origin_type(c) == first_partial_arg(orig_bases(c), 1)

\* a constructor that validates nothing
invalid_fields_none(c, kwargs) == <<>>

\* invalid_fields: the keys __new__ rejects (empty when nothing is validated)
invalid_fields(c, kwargs) ==
  IF origin_type(c) # "None" /\ origin_type(c) \in BaseModels
  THEN SelectSeq(Keys(kwargs), LAMBDA f : f \notin get_type_hints(origin_type(c)))
  ELSE <<>>

Ret(h, v) == [h |-> h, v |-> v, err |-> FALSE]
Raise(h) == [h |-> h, v |-> None, err |-> TRUE]

\* c(**kwargs): __new__ raises ValueError on invalid fields, otherwise
\* __init__ stores kwargs as self.data
construct(h, c, kwargs) ==
  IF invalid_fields(c, kwargs) # <<>> THEN Raise(h)
  ELSE Ret(Append(h, Obj("partial", c, kwargs, <<>>)), Ref(Len(h) + 1))

(***************************************************************************)
(* int(idx_str) on the index keys of the model; any other key raises       *)
(* ValueError.                                                             *)
(***************************************************************************)
IntOf == ("0" :> 0) @@ ("1" :> 1) @@ ("2" :> 2) @@ ("5" :> 5) @@ ("-1" :> (0 - 1))

(***************************************************************************)
(* The merge primitives and Partial.value.  Each returns the heap it       *)
(* leaves, the value it returns and whether it raised ValueError.          *)
(***************************************************************************)
RECURSIVE value(_, _, _), _partial_base_model(_, _, _), base_model_loop(_, _, _, _),
          base_model_item(_, _, _, _), _partial_dict(_, _, _), dict_loop(_, _, _, _),
          dict_item(_, _, _, _), _partial_list(_, _, _), list_loop(_, _, _, _),
          list_item(_, _, _, _), _merge_dicts(_, _, _), merge_loop(_, _, _, _)

_merge_lists(orig, partial) == partial

_merge_dicts(h, orig, partial) ==
  Then(deepcopy(h, orig), LAMBDA c :
    merge_loop(c.h, c.v.x, partial.x, Keys(h[partial.x].m)))

\* a merge that overwrites nested mappings instead of merging them
merge_loop_shallow(h, result, partial, ks) ==
  IF ks = <<>> THEN Ret(h, Ref(result))
  ELSE Then(SetAttr(h, result, Head(ks), h[partial].m[Head(ks)]), LAMBDA h2 :
         merge_loop(h2, result, partial, Tail(ks)))

merge_loop(h, result, partial, ks) ==
  IF ks = <<>> THEN Ret(h, Ref(result))
  ELSE Then(Head(ks), LAMBDA key :
       Then(h[partial].m[key], LAMBDA val :
         IF /\ key \in DOMAIN h[result].m
            /\ isinstance(h, h[result].m[key], {"dict"})
            /\ isinstance(h, val, {"dict"})
         THEN Then(_merge_dicts(h, h[result].m[key], val), LAMBDA r :
              Then(SetAttr(r.h, result, key, r.v), LAMBDA h2 :
                merge_loop(h2, result, partial, Tail(ks))))
         ELSE Then(SetAttr(h, result, key, val), LAMBDA h2 :
                merge_loop(h2, result, partial, Tail(ks)))))

value(h, self, orig) ==
  IF isinstance(h, orig, {"rec"}) THEN _partial_base_model(h, self, orig)
  ELSE IF isinstance(h, orig, {"dict"}) THEN _partial_dict(h, self, orig)
  ELSE IF isinstance(h, orig, {"list"}) THEN _partial_list(h, self, orig)
  ELSE Ret(h, IF "value" \in DOMAIN h[self].m THEN h[self].m["value"] ELSE orig)

_partial_base_model(h, self, orig) ==
  Then(deepcopy(h, orig), LAMBDA c :
    base_model_loop(c.h, self, c.v.x, Keys(h[self].m)))

\* a record rule without the nested-record branch
base_model_item_assign(h, self, original_value, val) ==
  IF /\ isinstance(h, val, {"partial"})
     /\ isinstance(h, original_value, {"dict", "list", "rec"})
  THEN value(h, val.x, original_value)
  ELSE IF isinstance(h, original_value, {"list"}) /\ isinstance(h, val, {"list"})
  THEN Ret(h, _merge_lists(original_value, val))
  ELSE IF isinstance(h, original_value, {"dict"}) /\ isinstance(h, val, {"dict"})
  THEN _merge_dicts(h, original_value, val)
  ELSE Ret(h, val)

\* the branch of the loop body taken for one (key, value) whose key is an
\* attribute of result
base_model_item(h, self, original_value, val) ==
  IF /\ isinstance(h, val, {"partial"})
     /\ isinstance(h, original_value, {"dict", "list", "rec"})
  THEN value(h, val.x, original_value)
  ELSE IF isinstance(h, original_value, {"list"}) /\ isinstance(h, val, {"list"})
  THEN Ret(h, _merge_lists(original_value, val))
  ELSE IF isinstance(h, original_value, {"dict"}) /\ isinstance(h, val, {"dict"})
  THEN _merge_dicts(h, original_value, val)
  ELSE IF isinstance(h, original_value, {"rec"}) /\ isinstance(h, val, {"dict"})
  THEN Then(h[original_value.x].c, LAMBDA nested_class :
       Then(construct(h, create_typed_partial(nested_class), h[val.x].m),
            LAMBDA nested_partial :
         IF nested_partial.err THEN Raise(nested_partial.h)
         ELSE value(nested_partial.h, nested_partial.v.x, original_value)))
  ELSE Ret(h, val)

\* a record loop that sets every patch key, attribute or not
base_model_loop_setall(h, self, result, ks) ==
  IF ks = <<>> THEN Ret(h, Ref(result))
  ELSE Then(Head(ks), LAMBDA key :
         IF key \notin DOMAIN h[result].m
         THEN Then(SetAttr(h, result, key, h[self].m[key]), LAMBDA h2 :
                base_model_loop(h2, self, result, Tail(ks)))
         ELSE Then(base_model_item(h, self, h[result].m[key], h[self].m[key]),
                   LAMBDA step :
                IF step.err THEN Raise(step.h)
                ELSE Then(SetAttr(step.h, result, key, step.v), LAMBDA h2 :
                       base_model_loop(h2, self, result, Tail(ks)))))

base_model_loop(h, self, result, ks) ==
  IF ks = <<>> THEN Ret(h, Ref(result))
  ELSE Then(Head(ks), LAMBDA key :
         IF key \notin DOMAIN h[result].m
         THEN base_model_loop(h, self, result, Tail(ks))
         ELSE Then(base_model_item(h, self, h[result].m[key], h[self].m[key]),
                   LAMBDA step :
                IF step.err THEN Raise(step.h)
                ELSE Then(SetAttr(step.h, result, key, step.v), LAMBDA h2 :
                       base_model_loop(h2, self, result, Tail(ks)))))

_partial_dict(h, self, orig) ==
  Then(deepcopy(h, orig), LAMBDA c :
    dict_loop(c.h, self, c.v.x, Keys(h[self].m)))

\* the branch of the loop body taken for one (key, value) whose key is in
\* result
dict_item(h, self, original_value, val) ==
  IF isinstance(h, val, {"partial"})
  THEN value(h, val.x, original_value)
  ELSE IF isinstance(h, original_value, {"list"}) /\ isinstance(h, val, {"list"})
  THEN Ret(h, _merge_lists(original_value, val))
  ELSE IF isinstance(h, original_value, {"dict"}) /\ isinstance(h, val, {"dict"})
  THEN _merge_dicts(h, original_value, val)
  ELSE Ret(h, val)

\* a mapping loop that drops the keys the original does not have
dict_loop_known(h, self, result, ks) ==
  IF ks = <<>> THEN Ret(h, Ref(result))
  ELSE Then(Head(ks), LAMBDA key :
         IF key \in DOMAIN h[result].m
         THEN Then(dict_item(h, self, h[result].m[key], h[self].m[key]),
                   LAMBDA step :
                IF step.err THEN Raise(step.h)
                ELSE Then(SetAttr(step.h, result, key, step.v), LAMBDA h2 :
                       dict_loop(h2, self, result, Tail(ks))))
         ELSE dict_loop(h, self, result, Tail(ks)))

dict_loop(h, self, result, ks) ==
  IF ks = <<>> THEN Ret(h, Ref(result))
  ELSE Then(Head(ks), LAMBDA key :
         IF key \in DOMAIN h[result].m
         THEN Then(dict_item(h, self, h[result].m[key], h[self].m[key]),
                   LAMBDA step :
                IF step.err THEN Raise(step.h)
                ELSE Then(SetAttr(step.h, result, key, step.v), LAMBDA h2 :
                       dict_loop(h2, self, result, Tail(ks))))
         ELSE Then(SetAttr(h, result, key, h[self].m[key]), LAMBDA h2 :
                dict_loop(h2, self, result, Tail(ks))))

\* a sequence rule that reads a missing items directive as an empty replacement
_partial_list_get(h, self, orig) ==
  IF "items" \notin DOMAIN h[self].m
  THEN Ret(Append(h, Obj("list", "", EmptyMap, <<>>)), Ref(Len(h) + 1))
  ELSE Then(deepcopy(h, orig), LAMBDA c :
       Then(h[self].m["items"], LAMBDA partial_items :
         IF isinstance(h, partial_items, {"dict"})
         THEN list_loop(c.h, c.v.x, partial_items.x, Keys(h[partial_items.x].m))
         ELSE IF isinstance(h, partial_items, {"list"})
         THEN Ret(c.h, partial_items)
         ELSE Ret(c.h, c.v)))

_partial_list(h, self, orig) ==
  IF "items" \notin DOMAIN h[self].m THEN Ret(h, orig)
  ELSE Then(deepcopy(h, orig), LAMBDA c :
       Then(h[self].m["items"], LAMBDA partial_items :
         IF isinstance(h, partial_items, {"dict"})
         THEN list_loop(c.h, c.v.x, partial_items.x, Keys(h[partial_items.x].m))
         ELSE IF isinstance(h, partial_items, {"list"})
         THEN Ret(c.h, partial_items)
         ELSE Ret(c.h, c.v)))

\* the branch of the loop body taken for one (idx, value) within bounds
list_item(h, self, original_value, val) ==
  IF isinstance(h, val, {"partial"})
  THEN value(h, val.x, original_value)
  ELSE IF isinstance(h, original_value, {"list"}) /\ isinstance(h, val, {"list"})
  THEN Ret(h, _merge_lists(original_value, val))
  ELSE IF isinstance(h, original_value, {"dict"}) /\ isinstance(h, val, {"dict"})
  THEN _merge_dicts(h, original_value, val)
  ELSE Ret(h, val)

\* an index loop that lets the error of a bad index escape
list_loop_raise(h, result, items, ks) ==
  IF ks = <<>> THEN Ret(h, Ref(result))
  ELSE Then(Head(ks), LAMBDA idx_str :
         IF idx_str \notin DOMAIN IntOf
         THEN Raise(h)
         ELSE Then(IntOf[idx_str], LAMBDA idx :
                IF ~(0 <= idx /\ idx < Len(h[result].s))
                THEN Raise(h)
                ELSE Then(list_item(h, items, h[result].s[idx + 1],
                                    h[items].m[idx_str]), LAMBDA step :
                       IF step.err
                       THEN list_loop(step.h, result, items, Tail(ks))
                       ELSE Then(SetItem(step.h, result, idx + 1, step.v),
                                 LAMBDA h2 :
                              list_loop(h2, result, items, Tail(ks))))))

\* the try body per (idx_str, value); except (ValueError, IndexError): continue
list_loop(h, result, items, ks) ==
  IF ks = <<>> THEN Ret(h, Ref(result))
  ELSE Then(Head(ks), LAMBDA idx_str :
         IF idx_str \notin DOMAIN IntOf
         THEN list_loop(h, result, items, Tail(ks))
         ELSE Then(IntOf[idx_str], LAMBDA idx :
                IF ~(0 <= idx /\ idx < Len(h[result].s))
                THEN list_loop(h, result, items, Tail(ks))
                ELSE Then(list_item(h, items, h[result].s[idx + 1],
                                    h[items].m[idx_str]), LAMBDA step :
                       IF step.err
                       THEN list_loop(step.h, result, items, Tail(ks))
                       ELSE Then(SetItem(step.h, result, idx + 1, step.v),
                                 LAMBDA h2 :
                              list_loop(h2, result, items, Tail(ks))))))

(***************************************************************************)
(* Inputs: the originals the caller holds and, for each, the overrides it  *)
(* may pass.  An input case gives the original, the candidate values of    *)
(* each override key (any subset of the keys may be present) and the forms *)
(* the caller may construct the patch with.                                *)
(***************************************************************************)
Plain == [kind |-> "plain", model |-> "None"]
Alias(m) == [kind |-> "alias", model |-> m]
Typed(m) == [kind |-> "typed", model |-> m]

RECURSIVE Prod(_, _)
Prod(cand, ks) ==
  IF ks = <<>> THEN {EmptyMap}
  ELSE LET rest == Prod(cand, Tail(ks))
       IN rest \cup {(Head(ks) :> v) @@ m : v \in cand[Head(ks)], m \in rest}

Overrides(cand) == Prod(cand, Keys(cand))

AnAddress ==
  R("Address", ("street" :> S(1)) @@ ("city" :> S(2))
               @@ ("geo" :> D(("lat" :> S(1)) @@ ("lon" :> S(2)))))

AUser ==
  R("User", ("name" :> S(1)) @@ ("addr" :> AnAddress)
            @@ ("tags" :> L(<<S(1), S(2)>>))
            @@ ("meta" :> D(("a" :> S(1)) @@ ("b" :> D(("c" :> S(1)) @@ ("d" :> S(2)))))))

RecordCase ==
  [o |-> AUser,
   cand |-> ("name" :> {S(2)}) @@ ("zzz" :> {S(2)})
            @@ ("addr" :> {D("city" :> S(9)),
                           D(("city" :> S(9)) @@ ("bogus" :> S(1))),
                           D("geo" :> D("lat" :> S(9))),
                           P("Partial", ("city" :> S(9)) @@ ("bogus" :> S(1))),
                           S(5)})
            @@ ("tags" :> {L(<<S(9)>>), P("Partial", "items" :> D("0" :> S(7)))})
            @@ ("meta" :> {D("b" :> D("c" :> S(9))), S(3)}),
   forms |-> {Plain, Alias("User"), Typed("User")}]

SmallDictCase ==
  [o |-> D("x" :> S(1)),
   cand |-> ("x" :> {S(5)})
            @@ ("y" :> {S(2), D("k" :> S(1)), P("Partial", "value" :> S(4))}),
   forms |-> {Plain, Typed("dict")}]

NestedDictCase ==
  [o |-> D(("a" :> D(("b" :> S(1)) @@ ("c" :> D(("d" :> S(1)) @@ ("k" :> S(2))))))
           @@ ("l" :> L(<<S(1), S(2)>>))),
   cand |-> ("a" :> {D("b" :> S(99)), D("c" :> D("d" :> S(9))), D("c" :> S(0)),
                     S(0), P("Partial", "b" :> S(7))})
            @@ ("l" :> {L(<<S(9)>>), P("Partial", "items" :> D("0" :> S(7)))})
            @@ ("y" :> {D("k" :> S(1))}),
   forms |-> {Plain}]

RecordInDictCase ==
  [o |-> D("u" :> AnAddress),
   cand |-> ("u" :> {D("city" :> S(9)), P("Partial", "city" :> S(9)),
                     P("Partial", "geo" :> D("bogus" :> S(1)))})
            @@ ("y" :> {S(2)}),
   forms |-> {Plain}]

IndexEdits ==
  Overrides(("0" :> {S(99), L(<<S(7)>>)}) @@ ("1" :> {S(98)}) @@ ("5" :> {S(1)})
            @@ ("-1" :> {S(1)}) @@ ("k" :> {S(1)}))

ScalarListCase(n) ==
  [o |-> L([i \in 1..n |-> S(10 * i)]),
   cand |-> ("items" :> ({L(<<S(9), S(9)>>), S(3)} \cup {D(e) : e \in IndexEdits}))
            @@ ("foo" :> {S(1)}),
   forms |-> {Plain}]

MixedListCase ==
  [o |-> L(<<L(<<S(1)>>), D("a" :> S(1)), AUser>>),
   cand |-> ("items" :>
              {D(e) : e \in Overrides(
                 ("0" :> {L(<<S(7)>>), P("Partial", "items" :> L(<<S(8)>>))})
                 @@ ("1" :> {D("b" :> S(2)), P("Partial", "a" :> S(5))})
                 @@ ("2" :> {P("Partial", "addr" :> D("bogus" :> S(1))),
                             P("Partial", "name" :> S(3))})
                 @@ ("5" :> {S(1)}))}),
   forms |-> {Plain}]

ScalarCase ==
  [o |-> S(7),
   cand |-> ("value" :> {S(4)}) @@ ("x" :> {S(1)}),
   forms |-> {Plain}]

InputCases ==
  {RecordCase, SmallDictCase, NestedDictCase, RecordInDictCase, MixedListCase,
   ScalarCase} \cup {ScalarListCase(n) : n \in 0..MaxLen}

(***************************************************************************)
(* The caller: it holds an original and a dict of overrides, constructs a  *)
(* patch from them, applies it, and may later change a result in place.    *)
(***************************************************************************)
Init ==
  \E ic \in InputCases :
    \E ov \in Overrides(ic.cand) :
      \E f \in ic.forms :
        LET bo == Build(<<>>, ic.o)
            bd == Build(bo.h, D(ov))
        IN /\ heap = bd.h
           /\ original = bo.v
           /\ snap = ic.o
           /\ data = bd.v
           /\ cls = f
           /\ via = "none"
           /\ patch = None
           /\ invalid = <<>>
           /\ res = None
           /\ pc = "start"
           /\ muts = 0
           /\ dsnap = ov
           /\ first = None
           /\ HandleOff
           /\ SubOff

\* form(**data): Partial.__new__ then Partial.__init__
Call(how) ==
  /\ pc = "start"
  /\ LET c == CalledClass(cls)
         r == construct(heap, c, heap[data.x].m)
     IN /\ heap' = r.h
        /\ patch' = r.v
        /\ invalid' = invalid_fields(c, heap[data.x].m)
        /\ pc' = IF r.err THEN "rejected" ELSE "constructed"
        /\ via' = how
  /\ UNCHANGED <<original, snap, data, cls, res, muts, dsnap, first>>
  /\ UNCHANGED <<hvars, svars>>

Construct == Call("init")

\* Partial.from_dict(data): cls(**data)
from_dict == Call("from_dict")

\* patch.value(original)
Apply ==
  /\ pc = "constructed"
  /\ LET r == value(heap, patch.x, original)
     IN /\ heap' = r.h
        /\ res' = r.v
        /\ pc' = IF r.err THEN "raised" ELSE "applied"
        /\ first' = IF r.err THEN None ELSE Abs(r.h, r.v)
  /\ via' = "value"
  /\ UNCHANGED <<original, snap, data, cls, patch, invalid, muts, dsnap>>
  /\ UNCHANGED <<hvars, svars>>

\* a later call patch.value(v) of the same patch, on a new value v equal to
\* the original of the first call
ApplyAgain ==
  /\ pc = "applied"
  /\ LET b == Build(heap, snap)
         r == value(b.h, patch.x, b.v)
     IN /\ heap' = r.h
        /\ original' = b.v
        /\ res' = r.v
        /\ pc' = IF r.err THEN "raised_again" ELSE "applied_again"
  /\ UNCHANGED <<snap, data, cls, via, patch, invalid, muts, dsnap, first>>
  /\ UNCHANGED <<hvars, svars>>

\* patch.value(patch.value(original)): the patch applied to its own result
ApplyToResult ==
  /\ pc = "applied"
  /\ muts = 0
  /\ LET r == value(heap, patch.x, res)
     IN /\ heap' = r.h
        /\ res' = r.v
        /\ pc' = IF r.err THEN "raised_twice" ELSE "applied_twice"
  /\ UNCHANGED <<original, snap, data, cls, via, patch, invalid, muts, dsnap, first>>
  /\ UNCHANGED <<hvars, svars>>

\* the mapping-merge primitive called on its own: _merge_dicts(original, data)
MergeDicts ==
  /\ pc = "start"
  /\ isinstance(heap, original, {"dict"})
  /\ LET r == _merge_dicts(heap, original, data)
     IN /\ heap' = r.h
        /\ res' = r.v
  /\ pc' = "merged"
  /\ via' = "merge"
  /\ UNCHANGED <<original, snap, data, cls, patch, invalid, muts, dsnap, first>>
  /\ UNCHANGED <<hvars, svars>>

\* the caller changes in place an object of the returned value: list.append,
\* dict[key] = ..., or an assignment to a field of a record
Mutate ==
  /\ pc \in {"applied", "merged"}
  /\ muts < MaxMut
  /\ \E a \in Reach(heap, res) :
       /\ heap[a].k \in {"dict", "list", "rec"}
       /\ heap' = IF heap[a].k = "list"
                  THEN [heap EXCEPT ![a] = Obj(@.k, @.c, @.m, Append(@.s, Scalar(77)))]
                  ELSE IF heap[a].k = "dict"
                  THEN SetAttr(heap, a, "mut", Scalar(77))
                  ELSE SetAttr(heap, a, Head(Keys(heap[a].m)), Scalar(77))
  /\ muts' = muts + 1
  /\ UNCHANGED <<original, snap, data, cls, via, patch, invalid, res, pc, dsnap, first>>
  /\ UNCHANGED <<hvars, svars>>

Next ==
  \/ Construct \/ from_dict \/ Apply \/ MergeDicts \/ Mutate
  \/ ApplyAgain \/ ApplyToResult

Spec == Init /\ [][Next]_vars

(***************************************************************************)
(* Vocabulary of the properties.                                           *)
(***************************************************************************)
\* the overrides the caller passed, and those the patch stores
Data == heap[data.x].m
AbsData == [k \in DOMAIN Data |-> Abs(heap, Data[k])]
PatchData == heap[patch.x].m
AbsPatchData == [k \in DOMAIN PatchData |-> Abs(heap, PatchData[k])]

OrigKind == KindOf(heap, original)

\* Apply has returned (resp. raised) and the caller has not touched the result
Applied == pc = "applied" /\ muts = 0
Raised == pc = "raised"

\* Mapping-merge as section 4.2.2 of the specification states it
RECURSIVE AbsMerge(_, _)
AbsMerge(a, b) ==
  D([k \in DOMAIN a.m \cup DOMAIN b.m |->
       IF k \notin DOMAIN b.m THEN a.m[k]
       ELSE IF k \in DOMAIN a.m /\ a.m[k].t = "dict" /\ b.m[k].t = "dict"
       THEN AbsMerge(a.m[k], b.m[k])
       ELSE b.m[k]])

\* the overrides d, applied to the value o, bind a plain mapping to a record
\* class of which some key of the mapping is not a declared field (outside
\* the index edits of a sequence)
RECURSIVE BindsUndeclared(_, _)
BindsUndeclared(d, o) ==
  CASE o.t = "rec" ->
         \E k \in DOMAIN d \cap DOMAIN o.m :
           \/ /\ d[k].t = "partial"
              /\ o.m[k].t \in {"dict", "list", "rec"}
              /\ BindsUndeclared(d[k].m, o.m[k])
           \/ /\ d[k].t = "dict"
              /\ o.m[k].t = "rec"
              /\ \/ \E f \in DOMAIN d[k].m : f \notin get_type_hints(o.m[k].c)
                 \/ BindsUndeclared(d[k].m, o.m[k])
    [] o.t = "dict" ->
         \E k \in DOMAIN d \cap DOMAIN o.m :
           d[k].t = "partial" /\ BindsUndeclared(d[k].m, o.m[k])
    [] OTHER -> FALSE

(***************************************************************************)
(* C1  Non-mutation: after Apply(p, v) has returned or raised, v and every *)
(* value nested inside v equal what they were before the call.             *)
(***************************************************************************)
C1_NonMutation ==
  (pc \in {"applied", "raised"} /\ muts = 0) => Abs(heap, original) = snap

\* Apply has rewritten a nested mapping of a mapping original
C1_Witness ==
  /\ Applied
  /\ OrigKind = "dict"
  /\ "a" \in DOMAIN snap.m /\ "a" \in DOMAIN Data
  /\ Abs(heap, res).m["a"] # snap.m["a"]

(***************************************************************************)
(* C2  As claimed: a validation error is never raised during Apply.        *)
(***************************************************************************)
C2_ApplyNeverRaises == ~Raised

(***************************************************************************)
(* C2  As amended: Apply raises a validation error exactly when it binds a *)
(* plain mapping, given for a record-valued field, to that field's record  *)
(* class and a key of the mapping is not a declared field of the class;    *)
(* inside an index edit of a sequence the error is caught and the index    *)
(* skipped.  In every other case Apply returns a value.                    *)
(***************************************************************************)
C2_RaisesIffBindsUndeclared ==
  (pc \in {"applied", "raised"}) => (Raised <=> BindsUndeclared(AbsData, snap))

\* Apply raised on a record whose nested record was given a mapping with an
\* undeclared key
C2_Witness ==
  /\ Raised
  /\ OrigKind = "rec"
  /\ "addr" \in DOMAIN Data
  /\ AbsData["addr"].t = "dict"
  /\ "bogus" \in DOMAIN AbsData["addr"].m

(***************************************************************************)
(* C3  As claimed: a PatchSpec constructed for a record shape, by the      *)
(* subscripted form Partial[M](...) or by a class of create_typed_partial, *)
(* is rejected exactly when a key is not a declared field of M, the error  *)
(* names those keys, and otherwise all overrides are stored; an unbound    *)
(* PatchSpec is never rejected.                                            *)
(***************************************************************************)
C3_BoundConstructValidates ==
  (via = "init") =>
    LET undeclared == {k \in DOMAIN Data : k \notin get_type_hints(cls.model)}
    IN IF cls.kind \in {"alias", "typed"} /\ cls.model \in BaseModels
       THEN /\ pc = "rejected" <=> undeclared # {}
            /\ pc = "rejected" => {invalid[i] : i \in DOMAIN invalid} = undeclared
            /\ pc = "constructed" => PatchData = Data
       ELSE pc = "constructed" /\ PatchData = Data

(***************************************************************************)
(* C4  Apply on a record ignores every patch key that is not an attribute  *)
(* of the record: such keys cause no error, the result has exactly the     *)
(* fields of the original, and every field no patch key names keeps its    *)
(* value.                                                                  *)
(***************************************************************************)
C4_UnknownKeysIgnored ==
  (pc \in {"applied", "raised"} /\ muts = 0 /\ OrigKind = "rec") =>
    /\ (DOMAIN Data \cap DOMAIN snap.m = {}) => (Applied /\ Abs(heap, res) = snap)
    /\ Applied =>
         LET r == Abs(heap, res)
         IN /\ r.t = "rec" /\ r.c = snap.c
            /\ DOMAIN r.m = DOMAIN snap.m
            /\ \A f \in DOMAIN snap.m \ DOMAIN Data : r.m[f] = snap.m[f]

\* a patch with an unknown key and a known one has been applied to a record
C4_Witness ==
  /\ Applied
  /\ OrigKind = "rec"
  /\ "zzz" \in DOMAIN Data /\ "name" \in DOMAIN Data
  /\ Abs(heap, res).m["name"] = AbsData["name"]

(***************************************************************************)
(* C5  Apply on a mapping never drops a patch key: the keys of the result  *)
(* are those of the original and of the patch, a key only in the patch     *)
(* holds the patch's value, a key only in the original keeps its value.    *)
(***************************************************************************)
C5_MappingKeepsPatchKeys ==
  (Applied /\ OrigKind = "dict") =>
    LET r == Abs(heap, res)
    IN /\ r.t = "dict"
       /\ DOMAIN r.m = DOMAIN snap.m \cup DOMAIN Data
       /\ \A k \in DOMAIN Data \ DOMAIN snap.m :
            heap[res.x].m[k] = Data[k] /\ r.m[k] = AbsData[k]
       /\ \A k \in DOMAIN snap.m \ DOMAIN Data : r.m[k] = snap.m[k]

\* a patch with a new key and an existing key has been applied to a mapping
C5_Witness ==
  /\ Applied
  /\ OrigKind = "dict"
  /\ DOMAIN Data \ DOMAIN snap.m # {}
  /\ DOMAIN Data \cap DOMAIN snap.m # {}
  /\ DOMAIN snap.m \ DOMAIN Data # {}

(***************************************************************************)
(* C6  Mapping-merge(a, b) is deep and right-biased: its keys are those of *)
(* a and of b; a key of b holds Mapping-merge(a[k], b[k]) when both are    *)
(* mappings and b[k] otherwise; a key only in a keeps a[k].  The same      *)
(* holds of the entries Apply merges in a mapping original.                *)
(***************************************************************************)
C6_MergeDeepRightBiased ==
  /\ (pc = "merged" /\ muts = 0) => Abs(heap, res) = AbsMerge(snap, D(AbsData))
  /\ (Applied /\ OrigKind = "dict") =>
       \A k \in DOMAIN Data \cap DOMAIN snap.m :
         (snap.m[k].t = "dict" /\ AbsData[k].t = "dict") =>
            Abs(heap, res).m[k] = AbsMerge(snap.m[k], AbsData[k])

\* a mapping nested two levels deep was merged with a subset of its keys and
\* kept the others
C6_Witness ==
  /\ pc = "merged" /\ muts = 0
  /\ "a" \in DOMAIN snap.m /\ "a" \in DOMAIN Data
  /\ AbsData["a"].t = "dict" /\ "c" \in DOMAIN AbsData["a"].m
  /\ AbsData["a"].m["c"].t = "dict"
  /\ Abs(heap, res).m["a"].m["c"].m["d"] = S(9)
  /\ Abs(heap, res).m["a"].m["c"].m["k"] = S(2)
  /\ Abs(heap, res).m["a"].m["b"] = S(1)

(***************************************************************************)
(* C7  Apply on a sequence with an index-to-value items mapping returns a  *)
(* sequence of the original's length; a position is changed only if a      *)
(* numeric key within bounds names it; out-of-bounds and non-numeric keys  *)
(* are skipped without error and the other keys are still applied.         *)
(***************************************************************************)
IndexEdit ==
  /\ OrigKind = "list"
  /\ "items" \in DOMAIN Data
  /\ AbsData["items"].t = "dict"

C7_IndexEdits ==
  (pc \in {"applied", "raised"} /\ muts = 0 /\ IndexEdit) =>
    LET r == Abs(heap, res)
        items == AbsData["items"].m
        named == {IntOf[k] + 1 : k \in {j \in DOMAIN items \cap DOMAIN IntOf :
                                          0 <= IntOf[j] /\ IntOf[j] < Len(snap.s)}}
    IN /\ Applied
       /\ r.t = "list"
       /\ Len(r.s) = Len(snap.s)
       /\ \A i \in DOMAIN snap.s \ named : r.s[i] = snap.s[i]
       /\ \A k \in DOMAIN items \cap DOMAIN IntOf :
            (0 <= IntOf[k] /\ IntOf[k] < Len(snap.s) /\ items[k].t # "partial") =>
               r.s[IntOf[k] + 1] =
                 IF snap.s[IntOf[k] + 1].t = "dict" /\ items[k].t = "dict"
                 THEN AbsMerge(snap.s[IntOf[k] + 1], items[k])
                 ELSE items[k]

\* an items mapping with a key in bounds, one out of bounds, a negative one
\* and a non-numeric one has been applied
C7_Witness ==
  /\ Applied /\ IndexEdit
  /\ {"1", "5", "-1", "k"} \subseteq DOMAIN AbsData["items"].m
  /\ Len(snap.s) = 2
  /\ Abs(heap, res).s = <<S(10), S(98)>>

(***************************************************************************)
(* C8  As claimed: Apply on a sequence with a patch that has no items      *)
(* directive returns a deep copy: the result equals the original, is a     *)
(* distinct value, and a later in-place change of the result leaves the    *)
(* original as it was.                                                     *)
(***************************************************************************)
C8_NoItemsReturnsCopy ==
  (pc = "applied" /\ OrigKind = "list" /\ "items" \notin DOMAIN Data) =>
    /\ res # original
    /\ Abs(heap, original) = snap
    /\ muts = 0 => Abs(heap, res) = snap

(***************************************************************************)
(* C9  Apply on a record, with a patch that gives a plain mapping of       *)
(* declared fields to a field holding a nested record, applies the mapping *)
(* to the nested record field by field: a nested field the mapping names   *)
(* takes the mapping's value (merged into the field's value when both are  *)
(* mappings), every other nested field and every outer field the patch     *)
(* does not name keep their values, and the field still holds a record of  *)
(* the same shape.                                                         *)
(***************************************************************************)
NestedMappingPatch ==
  /\ OrigKind = "rec"
  /\ "addr" \in DOMAIN Data
  /\ AbsData["addr"].t = "dict"
  /\ DOMAIN AbsData["addr"].m \subseteq get_type_hints(snap.m["addr"].c)

C10_FromDictNeverFails ==
  (via = "from_dict") => (pc = "constructed" /\ PatchData = Data)

(***************************************************************************)
(* C10  As amended: FromMapping(data) constructs the PatchSpec as          *)
(* Construct does.  On Partial itself, also when reached through the       *)
(* subscripted form Partial[M], and on a class bound to a type that is not *)
(* a record shape, it never fails.  On a class bound to a record shape by  *)
(* create_typed_partial it fails with a validation error exactly when some *)
(* key of data is not a declared field.  When it does not fail, the        *)
(* overrides equal data.                                                   *)
(***************************************************************************)
C10_FromDictValidatesAsConstruct ==
  (via = "from_dict") =>
    /\ pc = "rejected" <=>
         /\ cls.kind = "typed"
         /\ cls.model \in BaseModels
         /\ \E k \in DOMAIN Data : k \notin get_type_hints(cls.model)
    /\ pc = "constructed" => PatchData = Data

\* from_dict on a class bound to User rejected a mapping with an unknown key
C10_Witness ==
  /\ via = "from_dict"
  /\ pc = "rejected"
  /\ cls = Typed("User")
  /\ "zzz" \in DOMAIN Data

(***************************************************************************)
(* C11  As claimed: Apply on a mapping applies an override that is a       *)
(* PatchSpec also when its key is absent from the original: the PatchSpec  *)
(* is applied to an absent origin and the result holds, under the key, the *)
(* value that application produces (the PatchSpec's value entry, or the    *)
(* absent origin when it has none), never the PatchSpec itself.            *)
(***************************************************************************)
C11_PatchSpecAppliedToAbsentKey ==
  (Applied /\ OrigKind = "dict") =>
    \A k \in DOMAIN Data \ DOMAIN snap.m :
      AbsData[k].t = "partial" =>
        Abs(heap, res).m[k] =
          IF "value" \in DOMAIN AbsData[k].m THEN AbsData[k].m["value"]
          ELSE Abs(heap, None)

(***************************************************************************)
(* C12  Identity patch: applying a patch with no overrides to a record, a  *)
(* mapping or a sequence returns a value structurally equal to it.         *)
(***************************************************************************)
C12_IdentityPatch ==
  (pc \in {"applied", "raised"} /\ muts = 0 /\ DOMAIN Data = {}
     /\ OrigKind \in {"rec", "dict", "list"}) =>
    (Applied /\ Abs(heap, res) = snap)

\* the empty patch has been applied to a non-empty sequence
C12_Witness ==
  /\ Applied
  /\ DOMAIN Data = {}
  /\ OrigKind = "list"
  /\ Len(snap.s) > 0
  /\ Abs(heap, res) = snap

(***************************************************************************)
(* C13  As claimed: a PatchSpec is reusable.  Once it is constructed its   *)
(* overrides stay what the caller passed, whatever Apply calls and         *)
(* in-place changes of returned results follow; and a later Apply of the   *)
(* same PatchSpec to a value equal to the first original returns, without  *)
(* raising, a value equal to the one the first Apply returned.             *)
(***************************************************************************)
C13_PatchSpecReusable ==
  /\ (patch # None /\ pc # "rejected") => AbsPatchData = dsnap
  /\ pc # "raised_again"
  /\ (pc = "applied_again") => Abs(heap, res) = first

(***************************************************************************)
(* C18  As claimed: Apply is idempotent.  For a record, a mapping or a     *)
(* sequence v on which Apply(p, v) returns, Apply(p, Apply(p, v)) returns  *)
(* too and is structurally equal to Apply(p, v).                           *)
(***************************************************************************)
C18_ApplyIdempotent ==
  (pc \in {"applied_twice", "raised_twice"}
     /\ snap.t \in {"rec", "dict", "list"}) =>
    (pc = "applied_twice" /\ Abs(heap, res) = first)

(***************************************************************************)
(* The decorators of utils.py: exception_handler, timing_handler,          *)
(* retry_handler and their composition handle.  A function is decorated    *)
(* once (wrapped) and its wrapper is then called by NCalls callers.  The   *)
(* k-th run of the function body returns the value Val(k) or raises.       *)
(***************************************************************************)
NCalls == 2

\* the defaults of retry_handler and handle
retries == 3
initial_delay == 1

Callers == 1 .. NCalls

Decorators == {"retry_handler", "timing_handler", "handle"}
FuncKinds == {"plain", "coroutine"}
Outcomes == {"ok", "QuipubaseException", "Exception"}

Val(id) == [t |-> "value", id |-> id]
\* the coroutine object a call of a coroutine function returns before it is
\* awaited
Coroutine == [t |-> "coroutine", id |-> 0]
NoValue == [t |-> "none", id |-> 0]

\* one run of the decorated function's body; made counts the calls that
\* timing_handler's wrapper makes of the function it wraps
func(id, out) ==
  [exc |-> IF out = "ok" THEN "none" ELSE out,
   v |-> IF out = "ok" THEN Val(id) ELSE NoValue,
   made |-> 0]

\* QuipubaseException derives from BaseException: except Exception lets it pass
exception_handler(r) ==
  IF r.exc = "Exception" THEN [r EXCEPT !.exc = "QuipubaseException"] ELSE r

\* lines 135-137: a coroutine function is awaited and then called once more,
\* and the result of the second, unawaited call is returned
timing_handler(iscoroutinefunction, r) ==
  IF r.exc # "none" THEN [r EXCEPT !.made = 1]
  ELSE IF iscoroutinefunction THEN [exc |-> "none", v |-> Coroutine, made |-> 2]
  ELSE [r EXCEPT !.made = 1]

\* what one attempt hands to the outermost wrapper
attempt(deco, kind, id, out) ==
  CASE deco = "retry_handler" -> func(id, out)
    [] deco = "timing_handler" -> timing_handler(kind = "coroutine", func(id, out))
    [] deco = "handle" -> timing_handler(TRUE, exception_handler(func(id, out)))

has_retry(deco) == deco \in {"retry_handler", "handle"}

\* for _ in range(retries), with a loop that admits one attempt too many
in_range_inclusive(i, n) == i <= n

\* for _ in range(retries)
in_range(i, n) == i < n

NewCall == [pc |-> "idle", log |-> <<>>, waits |-> <<>>, ret |-> NoValue,
            err |-> "none", cur |-> 0]

InitHandle ==
  /\ PartialOff
  /\ SubOff
  /\ \E d \in Decorators : \E k \in FuncKinds :
       wrapped = [deco |-> d, kind |-> k]
  /\ delay = initial_delay
  /\ calls = [c \in Callers |-> NewCall]
  /\ invoked = 0

\* a wrapper that never awaits runs to its end before another caller runs
Scheduled(c) ==
  (wrapped.kind = "plain" /\ wrapped.deco # "handle") =>
    \A d \in Callers \ {c} : calls[d].pc \notin {"loop", "awaiting"}

\* the wrapper is called
Enter(c) ==
  /\ calls[c].pc = "idle"
  /\ Scheduled(c)
  /\ calls' = [calls EXCEPT ![c].pc = "loop"]
  /\ UNCHANGED <<wrapped, delay, invoked, pvars, svars>>

\* the wrapper calls the function it wraps
Invoke(c) ==
  /\ calls[c].pc = "loop"
  /\ has_retry(wrapped.deco) => in_range(Len(calls[c].log), retries)
  /\ invoked' = invoked + 1
  /\ calls' = [calls EXCEPT ![c].pc = "awaiting", ![c].cur = invoked + 1]
  /\ UNCHANGED <<wrapped, delay, pvars, svars>>

\* the call returns or raises; retry_handler returns the result, or sleeps
\* delay, doubles delay and goes on, or lets another exception through
Complete(c, out) ==
  /\ calls[c].pc = "awaiting"
  /\ LET r == attempt(wrapped.deco, wrapped.kind, calls[c].cur, out)
         log == Append(calls[c].log, r)
     IN IF r.exc = "none"
        THEN /\ calls' = [calls EXCEPT ![c].pc = "returned", ![c].log = log,
                                       ![c].ret = r.v]
             /\ delay' = delay
        ELSE IF r.exc = "QuipubaseException" /\ has_retry(wrapped.deco)
        THEN /\ calls' = [calls EXCEPT ![c].pc = "loop", ![c].log = log,
                                       ![c].waits = Append(@, delay)]
             /\ delay' = delay * 2
        ELSE /\ calls' = [calls EXCEPT ![c].pc = "raised", ![c].log = log,
                                       ![c].err = r.exc]
             /\ delay' = delay
  /\ UNCHANGED <<wrapped, invoked, pvars, svars>>

\* the loop is over: raise QuipubaseException("Exhausted retries ...")
Exhaust(c) ==
  /\ calls[c].pc = "loop"
  /\ has_retry(wrapped.deco)
  /\ ~in_range(Len(calls[c].log), retries)
  /\ calls' = [calls EXCEPT ![c].pc = "raised", ![c].err = "Exhausted retries"]
  /\ UNCHANGED <<wrapped, delay, invoked, pvars, svars>>

NextHandle ==
  \E c \in Callers :
    \/ Enter(c)
    \/ Invoke(c)
    \/ \E out \in Outcomes : Complete(c, out)
    \/ Exhaust(c)

SpecHandle == InitHandle /\ [][NextHandle]_vars

(***************************************************************************)
(* C15  One call of a function wrapped by retry_handler attempts the       *)
(* function at most retries times; it returns the result of the first      *)
(* attempt that succeeds, every attempt before it having failed with       *)
(* QuipubaseException, and makes no attempt after it; it raises the        *)
(* exhausted-retries QuipubaseException only when retries attempts have    *)
(* each failed with QuipubaseException, and then stops.                    *)
(***************************************************************************)
C15_AtMostRetriesAttempts ==
  has_retry(wrapped.deco) =>
    \A c \in Callers :
      LET cl == calls[c]
          n == Len(cl.log)
      IN /\ n <= retries
         /\ cl.pc = "awaiting" => n < retries
         /\ \A k \in 1 .. n - 1 : cl.log[k].exc = "QuipubaseException"
         /\ (cl.pc \in {"loop", "awaiting"}) =>
              \A k \in 1 .. n : cl.log[k].exc = "QuipubaseException"
         /\ (cl.pc = "returned") =>
              (n >= 1 /\ cl.log[n].exc = "none" /\ cl.ret = cl.log[n].v)
         /\ (cl.pc = "raised" /\ cl.err = "Exhausted retries") =>
              (n = retries /\ \A k \in 1 .. n : cl.log[k].exc = "QuipubaseException")
         /\ (n = retries /\ cl.log[n].exc = "QuipubaseException") =>
              cl.pc \in {"loop", "raised"}

\* a call returned the result of its last permitted attempt, another one
\* exhausted its retries
C15_Witness ==
  /\ has_retry(wrapped.deco)
  /\ \E c \in Callers :
       /\ calls[c].pc = "returned"
       /\ Len(calls[c].log) = retries
  /\ \E c \in Callers :
       /\ calls[c].pc = "raised"
       /\ calls[c].err = "Exhausted retries"

RECURSIVE Pow2(_)
Pow2(n) == IF n = 0 THEN 1 ELSE 2 * Pow2(n - 1)

(***************************************************************************)
(* C16  As claimed: within one call of a function wrapped by retry_handler *)
(* the wait after the k-th failed attempt is delay * 2^(k-1), delay being  *)
(* the value given at decoration, whatever failures earlier or concurrent  *)
(* calls of the same wrapped function have had.                            *)
(***************************************************************************)
C16_BackoffFromConfiguredDelay ==
  \A c \in Callers :
    \A k \in 1 .. Len(calls[c].waits) :
      calls[c].waits[k] = initial_delay * Pow2(k - 1)

(***************************************************************************)
(* C17  As claimed: one call of a function wrapped by timing_handler, and  *)
(* so each attempt of a function wrapped by handle, calls the wrapped      *)
(* function exactly once and returns the value that call produced, for     *)
(* plain and for coroutine functions alike.                                *)
(***************************************************************************)
C17_TimingInvokesOnce ==
  (wrapped.deco \in {"timing_handler", "handle"}) =>
    \A c \in Callers :
      /\ \A k \in 1 .. Len(calls[c].log) : calls[c].log[k].made = 1
      /\ (calls[c].pc = "returned") => calls[c].ret = Val(calls[c].cur)

(***************************************************************************)
(* QuipuBase.sub of client.py: one AsyncClient, created before the loop,   *)
(* and a loop that opens the event stream of the collection, yields its    *)
(* events, handles an error by sleeping, and closes the client in its      *)
(* finally clause.  The server (sub.up) goes down and comes back.          *)
(***************************************************************************)
MaxRounds == 3
MaxLines == 2

Chunks == {"event", "not json", "empty", "not an event"}

InitSub ==
  /\ PartialOff
  /\ HandleOff
  /\ \E u \in BOOLEAN :
       sub = [pc |-> "idle", closed |-> FALSE, up |-> u, rounds |-> 0,
              lines |-> 0, events |-> 0, yielded |-> 0,
              last |-> "none", lastUp |-> FALSE]

\* sub(col_id) is called and iterated: client = AsyncClient(...)
Subscribe ==
  /\ sub.pc = "idle"
  /\ sub' = [sub EXCEPT !.pc = "try", !.closed = FALSE]
  /\ UNCHANGED <<pvars, hvars>>

\* client.stream("GET", "/v1/events/{col_id}") and raise_for_status(): a
\* closed client refuses to send (RuntimeError), a server that is down
\* gives a connection error
OpenStream ==
  /\ sub.pc = "try"
  /\ sub.rounds < MaxRounds
  /\ LET outcome == IF sub.closed THEN "RuntimeError"
                    ELSE IF ~sub.up THEN "ConnectError"
                    ELSE "ok"
     IN sub' = [sub EXCEPT !.rounds = @ + 1,
                           !.last = outcome,
                           !.lastUp = sub.up,
                           !.pc = IF outcome = "ok" THEN "stream" ELSE "except"]
  /\ UNCHANGED <<pvars, hvars>>

\* a line arrives on the stream: an event is yielded, an empty line skipped,
\* a JSONDecodeError logged; any other error leaves the stream
Chunk(chunk) ==
  /\ sub.pc = "stream"
  /\ sub.up
  /\ sub.lines < MaxLines
  /\ sub' = [sub EXCEPT !.lines = @ + 1,
                        !.events = IF chunk = "event" THEN @ + 1 ELSE @,
                        !.yielded = IF chunk = "event" THEN @ + 1 ELSE @,
                        !.pc = IF chunk = "not an event" THEN "except" ELSE @]
  /\ UNCHANGED <<pvars, hvars>>

\* the server ends the stream: the async with block is left normally
StreamEnds ==
  /\ sub.pc = "stream"
  /\ sub' = [sub EXCEPT !.pc = "finally"]
  /\ UNCHANGED <<pvars, hvars>>

\* the server goes down; an open stream breaks with an error
ServerDown ==
  /\ sub.up
  /\ sub' = [sub EXCEPT !.up = FALSE,
                        !.pc = IF @ = "stream" THEN "except" ELSE @]
  /\ UNCHANGED <<pvars, hvars>>

\* the server is reachable again
ServerUp ==
  /\ ~sub.up
  /\ sub' = [sub EXCEPT !.up = TRUE]
  /\ UNCHANGED <<pvars, hvars>>

\* except Exception: log, await asyncio.sleep(1), continue
Except ==
  /\ sub.pc = "except"
  /\ sub' = [sub EXCEPT !.pc = "finally"]
  /\ UNCHANGED <<pvars, hvars>>

\* finally: await client.aclose(); then the next round of while True
Finally ==
  /\ sub.pc = "finally"
  /\ sub' = [sub EXCEPT !.closed = TRUE, !.pc = "try"]
  /\ UNCHANGED <<pvars, hvars>>

NextSub ==
  \/ Subscribe
  \/ OpenStream
  \/ \E chunk \in Chunks : Chunk(chunk)
  \/ StreamEnds
  \/ ServerDown
  \/ ServerUp
  \/ Except
  \/ Finally

SpecSub == InitSub /\ [][NextSub]_vars

(***************************************************************************)
(* C14  As claimed: sub subscribes with infinite retry.  After the event   *)
(* stream has failed or ended, sub opens a new stream to the collection    *)
(* whenever the server is reachable, so every attempt to open the stream   *)
(* made while the server is reachable gives a stream; and every event that *)
(* arrives on a stream is yielded to the subscriber.                       *)
(***************************************************************************)
C14_ResubscribesAfterFailure ==
  /\ (sub.last # "none" /\ sub.lastUp) => sub.last = "ok"
  /\ sub.yielded = sub.events

====
